---- MODULE Spec2Model ----
(***************************************************************************)
(* Model of scripts/repair_base_snapshot.py: the reconciliation of         *)
(* base-snapshot links over the global registry (index.json), the          *)
(* per-workspace configs (.fst/config.json), the parent configs (fst.json) *)
(* and the per-workspace snapshot and manifest stores.                     *)
(*                                                                         *)
(* JSON objects are functions from the keys they hold to values; a key    *)
(* that is missing is not in the DOMAIN.  A file that does not exist is   *)
(* not in the DOMAIN of the map that holds its directory.                 *)
(***************************************************************************)
EXTENDS Integers, Sequences, FiniteSets, TLC

VARIABLES disk, proc, hist, pickIn, pickOut

vars == <<disk, proc, hist, pickIn, pickOut>>

(***************************************************************************)
(* Bounds of the model.                                                    *)
(***************************************************************************)
\* the initial states differ from the baseline world in at most MaxDev places
MaxDev == 2
\* a behaviour holds at most MaxRuns runs of main()
MaxRuns == 3
\* created_at instants are 1..MaxTs
MaxTs == 2
\* a snapshot directory given to pick_snapshot_id alone holds at most MaxMetas files
MaxMetas == 3

(***************************************************************************)
(* Python values.                                                          *)
(***************************************************************************)
\* None: the result of dict.get on a missing key, or of a function that found nothing
NoVal == "<None>"

\* truthiness of an optional string: None and "" are falsy
Truthy(v) == v \notin {NoVal, ""}

\* dict.get(k)
Get(d, k) == IF k \in DOMAIN d THEN d[k] ELSE NoVal

\* d[k] = v
Put(d, k, v) == [x \in (DOMAIN d) \cup {k} |-> IF x = k THEN v ELSE d[x]]

\* d.pop(k, None)
Pop(d, k) == [x \in (DOMAIN d) \ {k} |-> d[x]]

\* {}
EmptyDoc == [x \in {} |-> ""]

\* the content of a file that is not JSON: json.loads raises JSONDecodeError on it
Unparseable == [x \in {"<not JSON>"} |-> ""]

\* load_json (lines 10-14) raises on a file that exists: only FileNotFoundError is caught
LoadRaises(doc) == doc = Unparseable

\* the dict of a list of <<key, value>> pairs; a pair with value NoVal is left out
DocOf(pairs) ==
    LET idx == {i \in 1..Len(pairs) : pairs[i][2] # NoVal}
    IN  [k \in {pairs[i][1] : i \in idx} |->
            pairs[CHOOSE i \in idx : pairs[i][1] = k][2]]

(***************************************************************************)
(* Paths.  Path.parent on the directories of the model.                    *)
(***************************************************************************)
Dirs == {"/", "/p", "/p/a", "/p/b", "/q"}

DirParent ==
    [d \in Dirs |->
        CASE d = "/"    -> "/"
          [] d = "/p"   -> "/"
          [] d = "/p/a" -> "/p"
          [] d = "/p/b" -> "/p"
          [] d = "/q"   -> "/"]

\* find_parent_root with the walk returning the last marked directory it meets
\* instead of the first
RECURSIVE find_parent_root_topmost(_, _)
find_parent_root_topmost(d, start) ==
    LET here == IF start \in DOMAIN d.parent THEN start ELSE NoVal
        up   == IF DirParent[start] = start THEN NoVal
                ELSE find_parent_root_topmost(d, DirParent[start])
    IN  IF up # NoVal THEN up ELSE here

\* find_parent_root: the nearest directory from start upwards holding fst.json
RECURSIVE find_parent_root(_, _)
find_parent_root(d, start) ==
    IF start \in DOMAIN d.parent THEN start
    ELSE IF DirParent[start] = start THEN NoVal
    ELSE find_parent_root(d, DirParent[start])

(***************************************************************************)
(* Snapshot metadata.  created_at is kept as the form of the string and   *)
(* the instant it denotes: "zulu" is an ISO string with a Z suffix or an  *)
(* offset, "naive" an ISO string without one, "junk" a string that is     *)
(* not ISO-8601, "absent" a missing or empty field.                       *)
(***************************************************************************)
Meta(id, form, t, mh) ==
    [id |-> id, created_at |-> [form |-> form, t |-> t], manifest_hash |-> mh,
     parses |-> TRUE]

\* a metadata file that is not JSON: load_snapshot_meta (lines 39-43) gives None
\* for it, load_json raises on it
UnparseableMeta ==
    [id |-> NoVal, created_at |-> [form |-> "absent", t |-> 0], manifest_hash |-> NoVal,
     parses |-> FALSE]

File(name, doc) == [name |-> name, doc |-> doc]

\* datetime.fromisoformat(created_at.replace("Z", "+00:00")), None when it raises
\* or when created_at is falsy
FromIso(created_at) ==
    CASE created_at.form = "zulu"  -> [known |-> TRUE, aware |-> TRUE, t |-> created_at.t]
      [] created_at.form = "naive" -> [known |-> TRUE, aware |-> FALSE, t |-> created_at.t]
      [] OTHER                     -> [known |-> FALSE, aware |-> FALSE, t |-> 0]

\* PickCandidates with the name of the file taken for the id of the record
PickCandidatesByFileName(files) ==
    [k \in 1..Len(files) |->
        [sid |-> files[k].name, ts |-> FromIso(files[k].doc.created_at)]]

\* the list metas of (id, ts) pairs, in the order glob yields the files,
\* without the pairs whose id is falsy
PickCandidates(files) ==
    LET all == [k \in 1..Len(files) |->
                   [sid |-> files[k].doc.id, ts |-> FromIso(files[k].doc.created_at)]]
    IN  SelectSeq(all, LAMBDA m : Truthy(m.sid))

\* the sort key (ts is None, ts or datetime.max): a before b
KeyLess(a, b) ==
    \/ a.ts.known /\ ~b.ts.known
    \/ a.ts.known /\ b.ts.known /\ a.ts.t < b.ts.t

\* list.sort is stable: x goes after every element that is not greater
RECURSIVE InsertSorted(_, _)
InsertSorted(x, s) ==
    IF s = <<>> THEN <<x>>
    ELSE IF KeyLess(x, Head(s)) THEN <<x>> \o s
    ELSE <<Head(s)>> \o InsertSorted(x, Tail(s))

RECURSIVE SortMetas(_)
SortMetas(s) ==
    IF s = <<>> THEN <<>>
    ELSE InsertSorted(s[Len(s)], SortMetas(SubSeq(s, 1, Len(s) - 1)))

\* comparing an offset-naive with an offset-aware datetime raises TypeError;
\* a sort of the candidates has to compare two of the known timestamps
PickRaises(files) ==
    LET c == PickCandidates(files)
    IN  \E a, b \in 1..Len(c) :
            /\ c[a].ts.known /\ c[b].ts.known
            /\ c[a].ts.aware /\ ~c[b].ts.aware

\* pick_snapshot_id on the files of an existing directory
PickFrom(files, prefer) ==
    LET metas == SortMetas(PickCandidates(files))
    IN  IF metas = <<>> THEN NoVal
        ELSE IF prefer = "latest" THEN metas[Len(metas)].sid
        ELSE metas[1].sid

\* pick_snapshot_id(Path(path) / ".fst" / "snapshots", prefer)
pick_snapshot_id(d, path, prefer) ==
    IF path \notin DOMAIN d.snaps THEN NoVal
    ELSE PickFrom(d.snaps[path], prefer)

\* whether that call raises
pick_raises(d, path) ==
    /\ path \in DOMAIN d.snaps
    /\ PickRaises(d.snaps[path])

(***************************************************************************)
(* The registry in memory (main, lines 111-120).  A workspace record is   *)
(* named by its position in the list workspaces: ws_by_id and             *)
(* ws_by_project hold references to the records of that list, so a        *)
(* record changed through the list is changed in both maps.               *)
(***************************************************************************)
\* ws_by_id.get(id): the position of the last record with that workspace_id, 0 for None
ws_by_id(ws, id) ==
    LET hits == {k \in 1..Len(ws) : Truthy(Get(ws[k], "workspace_id"))
                                       /\ Get(ws[k], "workspace_id") = id}
    IN  IF ~Truthy(id) \/ hits = {} THEN 0
        ELSE CHOOSE k \in hits : \A m \in hits : m <= k

\* ws_by_project.get(pid, []): the positions of the project's records, in registry order
ws_by_project(ws, pid) ==
    SelectSeq([k \in 1..Len(ws) |-> k],
              LAMBDA k : Truthy(Get(ws[k], "project_id")) /\ Get(ws[k], "project_id") = pid)

\* lines 170-176 and 238-244: the first workspace path of the list that yields a root
RECURSIVE RootByAncestry(_, _, _)
RootByAncestry(d, ws, cands) ==
    IF cands = <<>> THEN NoVal
    ELSE LET wpath == Get(ws[Head(cands)], "path")
             found == IF Truthy(wpath) THEN find_parent_root(d, wpath) ELSE NoVal
         IN  IF found # NoVal THEN found
             ELSE RootByAncestry(d, ws, Tail(cands))

\* lines 163-178 and 231-246: parent_root of project p, NoVal when there is none
ProjectRoot(d, ws, p) ==
    LET project_path == Get(p, "project_path")
    IN  IF Truthy(project_path) /\ project_path \in DOMAIN d.parent
        THEN project_path
        ELSE RootByAncestry(d, ws, ws_by_project(ws, Get(p, "project_id")))

(***************************************************************************)
(* The process: proc.pc is the place of main() in its loops, proc.i the   *)
(* loop index, proc.j and proc.stage the place in the replication loop.   *)
(***************************************************************************)
Outcome(d, p) == [disk |-> d, proc |-> p]

\* the end of a loop leads to the next phase
Norm(p) ==
    LET a == IF p.pc = "A" /\ p.i > Len(p.ws)
             THEN [p EXCEPT !.pc = "B", !.i = 1] ELSE p
        b == IF a.pc = "B" /\ a.i > Len(a.projects)
             THEN [a EXCEPT !.pc = "C", !.i = 1] ELSE a
    IN  IF b.pc = "R" /\ b.i > Len(b.projects)
        THEN [b EXCEPT !.pc = "done", !.i = 1, !.j = 1] ELSE b

NextI(p) == Norm([p EXCEPT !.i = p.i + 1, !.j = 1, !.stage = "meta"])

NextJ(p) == [p EXCEPT !.j = p.j + 1, !.stage = "meta"]

\* an exception no handler catches ends the process
Crash(p) == [p EXCEPT !.pc = "crashed"]

\* lines 104-125: main() up to the first loop
StartRun(d) ==
    IF d.index.exists /\ ~d.index.parses
    THEN [pc |-> "crashed", ws |-> <<>>, projects |-> <<>>, i |-> 1, j |-> 1,
          stage |-> "meta", updated_configs |-> 0, updated_index |-> 0,
          updated_parents |-> 0, copied_bases |-> 0]
    ELSE IF ~d.index.exists
    THEN [pc |-> "done", ws |-> <<>>, projects |-> <<>>, i |-> 1, j |-> 1,
          stage |-> "meta", updated_configs |-> 0, updated_index |-> 0,
          updated_parents |-> 0, copied_bases |-> 0]
    ELSE Norm([pc |-> "A", ws |-> d.index.workspaces, projects |-> d.index.projects,
               i |-> 1, j |-> 1, stage |-> "meta", updated_configs |-> 0,
               updated_index |-> 0, updated_parents |-> 0, copied_bases |-> 0])

(***************************************************************************)
(* Phase A (lines 128-156), one workspace record.                          *)
(***************************************************************************)
\* line 137: the legacy field is migrated
NeedsMigration(cfg) ==
    ~Truthy(Get(cfg, "base_snapshot_id")) /\ Truthy(Get(cfg, "fork_snapshot_id"))

\* MigrateLegacy without the removal of the legacy field
MigrateLegacyKeepingField(cfg) ==
    Put(cfg, "base_snapshot_id", Get(cfg, "fork_snapshot_id"))

\* lines 138-139
MigrateLegacy(cfg) ==
    Pop(Put(cfg, "base_snapshot_id", Get(cfg, "fork_snapshot_id")), "fork_snapshot_id")

\* lines 145-147
SetResolvedBase(cfg, base_id) ==
    LET c == Put(cfg, "base_snapshot_id", base_id)
    IN  IF ~Truthy(Get(c, "current_snapshot_id"))
        THEN Put(c, "current_snapshot_id", base_id) ELSE c

\* line 154: the registry record takes the local value
NeedsIndexUpdate(w, base_id) ==
    Truthy(base_id) /\ ~Truthy(Get(w, "base_snapshot_id"))

PhaseAStep(d, p) ==
    LET w    == p.ws[p.i]
        path == Get(w, "path")
    IN  IF ~Truthy(path) \/ path \notin DOMAIN d.cfg
        THEN Outcome(d, NextI(p))
        ELSE
        LET cfg0     == d.cfg[path]
            migrated == NeedsMigration(cfg0)
            cfg1     == IF migrated THEN MigrateLegacy(cfg0) ELSE cfg0
            resolve  == ~Truthy(Get(cfg1, "base_snapshot_id"))
            picked   == IF resolve THEN pick_snapshot_id(d, path, "earliest") ELSE NoVal
            cfg2     == IF Truthy(picked) THEN SetResolvedBase(cfg1, picked) ELSE cfg1
            changed  == migrated \/ Truthy(picked)
            base_id  == Get(cfg2, "base_snapshot_id")
            toIndex  == NeedsIndexUpdate(w, base_id)
            d2       == IF changed THEN [d EXCEPT !.cfg[path] = cfg2] ELSE d
            p2       == [p EXCEPT
                           !.updated_configs = IF changed THEN @ + 1 ELSE @,
                           !.updated_index = IF toIndex THEN @ + 1 ELSE @,
                           !.ws[p.i] = IF toIndex THEN Put(w, "base_snapshot_id", base_id)
                                       ELSE @]
        IN  IF LoadRaises(cfg0) \/ (resolve /\ pick_raises(d, path))
            THEN Outcome(d, Crash(p))
            ELSE Outcome(d2, NextI(p2))

(***************************************************************************)
(* Phase B (lines 159-221), one project.                                   *)
(***************************************************************************)
\* BaseIdOf with the snapshot directory consulted before the record
BaseIdFromDirectoryFirst(d, w) ==
    LET wpath  == Get(w, "path")
        picked == IF Truthy(wpath) THEN pick_snapshot_id(d, wpath, "earliest") ELSE NoVal
    IN  IF Truthy(picked) THEN picked ELSE Get(w, "base_snapshot_id")

\* lines 198-201 and 211-215: the recorded base of a record, else the earliest snapshot
BaseIdOf(d, w) ==
    LET base_id == Get(w, "base_snapshot_id")
        wpath   == Get(w, "path")
    IN  IF Truthy(base_id) THEN base_id
        ELSE IF Truthy(wpath) THEN pick_snapshot_id(d, wpath, "earliest")
        ELSE base_id

BaseIdRaises(d, w) ==
    /\ ~Truthy(Get(w, "base_snapshot_id"))
    /\ Truthy(Get(w, "path"))
    /\ pick_raises(d, Get(w, "path"))

\* ScanCandidates with the list gone through from its end
RECURSIVE ScanCandidatesFromEnd(_, _, _)
ScanCandidatesFromEnd(d, ws, cands) ==
    IF cands = <<>> THEN [k |-> 0, base_id |-> NoVal, raised |-> FALSE]
    ELSE LET last == cands[Len(cands)]
             rest == SubSeq(cands, 1, Len(cands) - 1)
             w    == ws[last]
         IN  IF ~Truthy(Get(w, "path")) THEN ScanCandidatesFromEnd(d, ws, rest)
             ELSE IF BaseIdRaises(d, w)
             THEN [k |-> 0, base_id |-> NoVal, raised |-> TRUE]
             ELSE IF ~Truthy(BaseIdOf(d, w)) THEN ScanCandidatesFromEnd(d, ws, rest)
             ELSE [k |-> last, base_id |-> BaseIdOf(d, w), raised |-> FALSE]

\* lines 192-209: the first record of the project with a path that yields a base id;
\* k = 0 when there is none
RECURSIVE ScanCandidates(_, _, _)
ScanCandidates(d, ws, cands) ==
    IF cands = <<>> THEN [k |-> 0, base_id |-> NoVal, raised |-> FALSE]
    ELSE LET w == ws[Head(cands)]
         IN  IF ~Truthy(Get(w, "path")) THEN ScanCandidates(d, ws, Tail(cands))
             ELSE IF BaseIdRaises(d, w)
             THEN [k |-> 0, base_id |-> NoVal, raised |-> TRUE]
             ELSE IF ~Truthy(BaseIdOf(d, w)) THEN ScanCandidates(d, ws, Tail(cands))
             ELSE [k |-> Head(cands), base_id |-> BaseIdOf(d, w), raised |-> FALSE]

\* SelectBase without the hint of lines 188-190
SelectBaseByScan(d, ws, pid, parent_cfg) ==
    ScanCandidates(d, ws, ws_by_project(ws, pid))

\* lines 187-215: the base workspace and the base id for a parent config
SelectBase(d, ws, pid, parent_cfg) ==
    LET hinted == ws_by_id(ws, Get(parent_cfg, "base_workspace_id"))
    IN  IF hinted # 0
        THEN [k |-> hinted, base_id |-> BaseIdOf(d, ws[hinted]),
              raised |-> BaseIdRaises(d, ws[hinted])]
        ELSE ScanCandidates(d, ws, ws_by_project(ws, pid))

\* ParentNeedsBase without the test of line 185
ParentAlwaysNeedsBase(parent_cfg) == TRUE

\* line 185: a parent config with a base is left alone
ParentNeedsBase(parent_cfg) == ~Truthy(Get(parent_cfg, "base_snapshot_id"))

\* lines 218-219
SetParentBase(parent_cfg, base_id, w) ==
    Put(Put(parent_cfg, "base_snapshot_id", base_id),
        "base_workspace_id", Get(w, "workspace_id"))

PhaseBStep(d, p) ==
    LET proj == p.projects[p.i]
        pid  == Get(proj, "project_id")
        root == ProjectRoot(d, p.ws, proj)
    IN  IF ~Truthy(pid) \/ root = NoVal
        THEN Outcome(d, NextI(p))
        ELSE
        LET parent_cfg == d.parent[root]
            sel        == SelectBase(d, p.ws, pid, parent_cfg)
        IN  IF LoadRaises(parent_cfg) THEN Outcome(d, Crash(p))
            ELSE IF ~ParentNeedsBase(parent_cfg) THEN Outcome(d, NextI(p))
            ELSE IF sel.raised THEN Outcome(d, Crash(p))
            ELSE IF sel.k # 0 /\ Truthy(sel.base_id)
            THEN Outcome([d EXCEPT !.parent[root] =
                                SetParentBase(parent_cfg, sel.base_id, p.ws[sel.k])],
                         NextI([p EXCEPT !.updated_parents = @ + 1]))
            ELSE Outcome(d, NextI(p))

(***************************************************************************)
(* Phase C (lines 223-224).                                                *)
(***************************************************************************)
\* PhaseCStep without the save of line 224
PhaseCStepWithoutSave(d, p) ==
    Outcome(d, Norm([p EXCEPT !.pc = "R", !.i = 1, !.j = 1, !.stage = "meta"]))

PhaseCStep(d, p) ==
    LET p2 == [p EXCEPT !.pc = "R", !.i = 1, !.j = 1, !.stage = "meta"]
    IN  IF p.updated_index > 0
        THEN Outcome([d EXCEPT !.index.workspaces = p.ws], Norm(p2))
        ELSE Outcome(d, Norm(p2))

(***************************************************************************)
(* copy_base_snapshot (lines 72-100) and the replication pass (lines      *)
(* 227-267).  A step with stage "meta" is the call up to the write of the *)
(* metadata document, a step with stage "manifest" the rest of the call.  *)
(***************************************************************************)
HasFile(files, name) == \E k \in 1..Len(files) : files[k].name = name

FileDoc(files, name) == files[CHOOSE k \in 1..Len(files) : files[k].name = name].doc

\* line 79: load_json raises on a metadata document of the source that is not JSON
SourceRaises(d, source, base_id) ==
    /\ source \in DOMAIN d.snaps
    /\ HasFile(d.snaps[source], base_id)
    /\ ~FileDoc(d.snaps[source], base_id).parses

\* SourceUsable with the tests of lines 82-88 left out
SourceHasMetadata(d, source, base_id) ==
    /\ source \in DOMAIN d.snaps
    /\ HasFile(d.snaps[source], base_id)

\* lines 78-88: the metadata of base_id in the source can be copied
SourceUsable(d, source, base_id) ==
    /\ source \in DOMAIN d.snaps
    /\ HasFile(d.snaps[source], base_id)
    /\ Truthy(FileDoc(d.snaps[source], base_id).manifest_hash)
    /\ source \in DOMAIN d.mans
    /\ FileDoc(d.snaps[source], base_id).manifest_hash \in DOMAIN d.mans[source]

\* lines 90-91: mkdir(parents=True, exist_ok=True) of both directories
MakeDirs(d, target) ==
    [d EXCEPT !.snaps = IF target \in DOMAIN d.snaps THEN @
                        ELSE [x \in DOMAIN @ \cup {target} |->
                                 IF x = target THEN <<>> ELSE @[x]],
              !.mans  = IF target \in DOMAIN d.mans THEN @
                        ELSE [x \in DOMAIN @ \cup {target} |->
                                 IF x = target THEN EmptyDoc ELSE @[x]]]

\* WriteMeta without the test of line 96: the document is written once more
WriteMetaAlways(d, source, target, base_id) ==
    [d EXCEPT !.snaps[target] =
        Append(@, File(base_id, FileDoc(d.snaps[source], base_id)))]

\* lines 96-97: the metadata document is written where the target has none
WriteMeta(d, source, target, base_id) ==
    IF HasFile(d.snaps[target], base_id) THEN d
    ELSE [d EXCEPT !.snaps[target] =
              Append(@, File(base_id, FileDoc(d.snaps[source], base_id)))]

\* WriteManifest without the write of line 99
WriteManifestNever(d, source, target, base_id) == d

\* WriteManifest without the test of line 98
WriteManifestAlways(d, source, target, base_id) ==
    LET manifest_hash == FileDoc(d.snaps[source], base_id).manifest_hash
    IN  [d EXCEPT !.mans[target] = Put(@, manifest_hash, d.mans[source][manifest_hash])]

\* lines 98-99: the manifest document is written where the target has none
WriteManifest(d, source, target, base_id) ==
    LET manifest_hash == FileDoc(d.snaps[source], base_id).manifest_hash
    IN  IF manifest_hash \in DOMAIN d.mans[target] THEN d
        ELSE [d EXCEPT !.mans[target] =
                  Put(@, manifest_hash, d.mans[source][manifest_hash])]

\* lines 227-261: the source path and the base id of the project, ok = FALSE when
\* the project is skipped
ReplicationSource(d, ws, proj) ==
    LET pid        == Get(proj, "project_id")
        root       == ProjectRoot(d, ws, proj)
        parent_cfg == IF root = NoVal THEN EmptyDoc ELSE d.parent[root]
        base_id    == Get(parent_cfg, "base_snapshot_id")
        base_ws    == ws_by_id(ws, Get(parent_cfg, "base_workspace_id"))
        base_path  == IF base_ws = 0 THEN NoVal ELSE Get(ws[base_ws], "path")
    IN  [ok      |-> Truthy(pid) /\ root # NoVal /\ ~LoadRaises(parent_cfg)
                       /\ Truthy(base_id) /\ base_ws # 0 /\ Truthy(base_path),
         raised  |-> Truthy(pid) /\ root # NoVal /\ LoadRaises(parent_cfg),
         path    |-> base_path,
         base_id |-> base_id]

ReplicationStep(d, p) ==
    LET proj    == p.projects[p.i]
        src     == ReplicationSource(d, p.ws, proj)
        targets == ws_by_project(p.ws, Get(proj, "project_id"))
    IN  IF src.raised THEN Outcome(d, Crash(p))
        ELSE IF ~src.ok \/ p.j > Len(targets) THEN Outcome(d, NextI(p))
        ELSE
        LET wpath == Get(p.ws[targets[p.j]], "path")
        IN  IF ~Truthy(wpath) THEN Outcome(d, NextJ(p))
            ELSE IF SourceRaises(d, src.path, src.base_id) THEN Outcome(d, Crash(p))
            ELSE IF ~SourceUsable(d, src.path, src.base_id) THEN Outcome(d, NextJ(p))
            ELSE IF p.stage = "meta"
            THEN Outcome(WriteMeta(MakeDirs(d, wpath), src.path, wpath, src.base_id),
                         [p EXCEPT !.stage = "manifest"])
            ELSE Outcome(WriteManifest(d, src.path, wpath, src.base_id),
                         NextJ([p EXCEPT !.copied_bases = @ + 1]))

(***************************************************************************)
(* One step of main() from any place in it, and main() run to its end.    *)
(***************************************************************************)
Running(p) == p.pc \in {"A", "B", "C", "R"}

MainStep(d, p) ==
    CASE p.pc = "A" -> PhaseAStep(d, p)
      [] p.pc = "B" -> PhaseBStep(d, p)
      [] p.pc = "C" -> PhaseCStep(d, p)
      [] p.pc = "R" -> ReplicationStep(d, p)
      [] OTHER      -> Outcome(d, p)

RECURSIVE RunToEnd(_, _)
RunToEnd(d, p) ==
    IF Running(p) THEN RunToEnd(MainStep(d, p).disk, MainStep(d, p).proc)
    ELSE Outcome(d, p)

\* a whole run of main() on the documents d
FullRun(d) == RunToEnd(d, StartRun(d))

(***************************************************************************)
(* The documents before the first run.  The baseline world is one project *)
(* p1 without project_path, its marker /p/fst.json without a base, and    *)
(* two workspaces: w1 at /p/a, whose store holds snapshot s1 with its     *)
(* manifest, and w2 at /p/b with an empty store; neither config names a   *)
(* base.  An initial state differs from the baseline in the places of a   *)
(* set of at most MaxDev places, each place taking any of its values.     *)
(***************************************************************************)
Present(doc) == [exists |-> TRUE, doc |-> doc]

Missing == [exists |-> FALSE, doc |-> EmptyDoc]

Store(snapdir, files, mandir, mans) ==
    [snapdir |-> snapdir, files |-> files, mandir |-> mandir, mans |-> mans]

Manifests(h, content) == [x \in {h} |-> content]

Places ==
    {"index", "w1path", "w1base", "w2id", "w2proj", "w2path", "w2base", "ppath",
     "cfg1", "cfg2", "store1", "store2", "markP", "markA", "markRoot"}

\* the values of each place, the baseline value first
Values(place) ==
    CASE place = "index"  -> <<[exists |-> TRUE, parses |-> TRUE],
                                 [exists |-> FALSE, parses |-> TRUE],
                                 [exists |-> TRUE, parses |-> FALSE]>>
      [] place = "w1path" -> <<"/p/a", "/q", NoVal>>
      [] place = "w1base" -> <<NoVal, "s1", "s2">>
      [] place = "w2id"   -> <<"w2", "w1", NoVal>>
      [] place = "w2proj" -> <<"p1", "p2", NoVal>>
      [] place = "w2path" -> <<"/p/b", NoVal, "/p/a">>
      [] place = "w2base" -> <<NoVal, "s1">>
      [] place = "ppath"  -> <<NoVal, "/p", "/q">>
      [] place = "cfg1"   ->
            << Present(EmptyDoc),
               Missing,
               Present(DocOf(<< <<"base_snapshot_id", "s1">> >>)),
               Present(DocOf(<< <<"fork_snapshot_id", "s2">> >>)),
               Present(DocOf(<< <<"base_snapshot_id", "">>, <<"fork_snapshot_id", "s1">>,
                                <<"current_snapshot_id", "s2">> >>)),
               Present(DocOf(<< <<"base_snapshot_id", "s2">>,
                                <<"fork_snapshot_id", "s1">> >>)),
               Present(Unparseable) >>
      [] place = "cfg2"   ->
            << Present(EmptyDoc),
               Missing,
               Present(DocOf(<< <<"base_snapshot_id", "s1">> >>)),
               Present(DocOf(<< <<"fork_snapshot_id", "s2">> >>)) >>
      [] place = "store1" ->
            << Store(TRUE, << File("s1", Meta("s1", "zulu", 1, "h1")) >>,
                     TRUE, Manifests("h1", "c1")),
               Store(FALSE, <<>>, FALSE, EmptyDoc),
               Store(TRUE, << File("s1", Meta("s1", "zulu", 2, "h1")),
                              File("s2", Meta("s2", "zulu", 1, "h2")) >>,
                     TRUE, Manifests("h1", "c1") @@ Manifests("h2", "c2")),
               Store(TRUE, << File("s1", Meta("s1", "zulu", 1, "h1")) >>,
                     FALSE, EmptyDoc),
               Store(TRUE, << File("s1", Meta("s1", "zulu", 1, "h1")),
                              File("s2", Meta("s2", "naive", 2, "h2")) >>,
                     TRUE, Manifests("h1", "c1")),
               Store(TRUE, << File("s1", Meta(NoVal, "absent", 0, "h1")) >>,
                     TRUE, Manifests("h1", "c1")),
               Store(TRUE, << File("s1", UnparseableMeta) >>,
                     TRUE, Manifests("h1", "c1")),
               Store(TRUE, << File("s1", Meta("s1", "zulu", 1, NoVal)) >>,
                     TRUE, Manifests("h1", "c1")) >>
      [] place = "store2" ->
            << Store(TRUE, <<>>, TRUE, EmptyDoc),
               Store(FALSE, <<>>, FALSE, EmptyDoc),
               Store(TRUE, << File("s1", Meta("s1", "junk", 0, "h9")) >>,
                     TRUE, Manifests("h1", "corrupt")),
               Store(TRUE, << File("s2", Meta("s2", "naive", 1, "h2")) >>,
                     TRUE, Manifests("h2", "c2")) >>
      [] place = "markP"  ->
            << Present(EmptyDoc),
               Missing,
               Present(DocOf(<< <<"base_snapshot_id", "s1">>,
                                <<"base_workspace_id", "w1">> >>)),
               Present(DocOf(<< <<"base_workspace_id", "w2">> >>)),
               Present(DocOf(<< <<"base_snapshot_id", "s2">> >>)),
               Present(Unparseable) >>
      [] place = "markA"  -> <<Missing, Present(EmptyDoc)>>
      [] place = "markRoot" -> <<Missing, Present(EmptyDoc)>>

\* the sets of places that differ from the baseline
Deviations == {S \in SUBSET Places : Cardinality(S) <= MaxDev}

\* the choices of a value for every place that differ from the baseline within S
ChoicesIn(S) ==
    LET width == CHOOSE n \in 1..10 : \A q \in Places : Len(Values(q)) <= n + 1
        picks == {f \in [S -> 2..(width + 1)] : \A q \in S : f[q] <= Len(Values(q))}
    IN  {[q \in Places |-> IF q \in S THEN f[q] ELSE 1] : f \in picks}

Choices == UNION {ChoicesIn(S) : S \in Deviations}

\* the documents of a choice
World(c) ==
    LET v(q)  == Values(q)[c[q]]
        path1 == v("w1path")
        path2 == v("w2path")
        w1    == DocOf(<< <<"workspace_id", "w1">>, <<"project_id", "p1">>,
                          <<"path", path1>>, <<"base_snapshot_id", v("w1base")>> >>)
        w2    == DocOf(<< <<"workspace_id", v("w2id")>>, <<"project_id", v("w2proj")>>,
                          <<"path", path2>>, <<"base_snapshot_id", v("w2base")>> >>)
        p1    == DocOf(<< <<"project_id", "p1">>, <<"project_path", v("ppath")>> >>)
        p2    == DocOf(<< <<"project_id", "p2">> >>)
        \* what lies at a workspace path: the files of w1 where both name the same path
        at(path, q1, q2) == IF path = path1 THEN v(q1) ELSE v(q2)
        homes == {x \in {path1, path2} : x # NoVal}
        mark(dir) == CASE dir = "/p"   -> v("markP")
                       [] dir = "/p/a" -> v("markA")
                       [] dir = "/"    -> v("markRoot")
                       [] OTHER        -> Missing
    IN  [index  |-> [exists |-> v("index").exists, parses |-> v("index").parses,
                     workspaces |-> <<w1, w2>>, projects |-> <<p1, p2>>],
         cfg    |-> [x \in {h \in homes : at(h, "cfg1", "cfg2").exists} |->
                        at(x, "cfg1", "cfg2").doc],
         parent |-> [x \in {dir \in Dirs : mark(dir).exists} |-> mark(x).doc],
         snaps  |-> [x \in {h \in homes : at(h, "store1", "store2").snapdir} |->
                        at(x, "store1", "store2").files],
         mans   |-> [x \in {h \in homes : at(h, "store1", "store2").mandir} |->
                        at(x, "store1", "store2").mans]]

(***************************************************************************)
(* The state machine.  hist records the documents before the first run    *)
(* (init) and before the current run (pre), the number of runs started,   *)
(* how the run before the current one ended (prev) and whether a run was  *)
(* interrupted.                                                           *)
(***************************************************************************)
\* no call of pick_snapshot_id on pickIn has been made
NotPicked == [done |-> FALSE, raised |-> FALSE, earliest |-> NoVal, latest |-> NoVal]

Idle ==
    [pc |-> "idle", ws |-> <<>>, projects |-> <<>>, i |-> 1, j |-> 1,
     stage |-> "meta", updated_configs |-> 0, updated_index |-> 0,
     updated_parents |-> 0, copied_bases |-> 0]

Init ==
    /\ \E c \in Choices : disk = World(c)
    /\ proc = Idle
    /\ hist = [init |-> disk, pre |-> disk, runs |-> 0, prev |-> "none",
               interrupted |-> FALSE]
    /\ pickIn = <<>>
    /\ pickOut = NotPicked

Apply(out) ==
    /\ disk' = out.disk
    /\ proc' = out.proc
    /\ UNCHANGED <<hist, pickIn, pickOut>>

\* main() is started: the first time, or again after a run has ended
Start ==
    /\ ~Running(proc)
    /\ hist.runs < MaxRuns
    /\ proc' = StartRun(disk)
    /\ hist' = [hist EXCEPT !.pre = disk, !.runs = @ + 1, !.prev = proc.pc]
    /\ UNCHANGED <<disk, pickIn, pickOut>>

PhaseA == proc.pc = "A" /\ Apply(PhaseAStep(disk, proc))

PhaseB == proc.pc = "B" /\ Apply(PhaseBStep(disk, proc))

PhaseC == proc.pc = "C" /\ Apply(PhaseCStep(disk, proc))

Replicate == proc.pc = "R" /\ Apply(ReplicationStep(disk, proc))

\* the process is killed, or a write fails, between two steps
Abort ==
    /\ Running(proc)
    /\ ~hist.interrupted
    /\ proc' = [proc EXCEPT !.pc = "aborted"]
    /\ hist' = [hist EXCEPT !.interrupted = TRUE]
    /\ UNCHANGED <<disk, pickIn, pickOut>>

Next == Start \/ PhaseA \/ PhaseB \/ PhaseC \/ Replicate \/ Abort

Spec == Init /\ [][Next]_vars

(***************************************************************************)
(* pick_snapshot_id alone: the files of a snapshot directory, in the order *)
(* glob yields them, are drawn from every id, every form of created_at    *)
(* and every instant, and the function is called with both preferences.   *)
(***************************************************************************)
MetaNames == <<"m1", "m2", "m3", "m4", "m5">>

PickMetas ==
    {Meta(id, st.form, st.t, NoVal) :
        id \in {NoVal, "s1", "s2"},
        st \in [form : {"absent", "junk"}, t : {0}]
                  \cup [form : {"naive", "zulu"}, t : 1..MaxTs]}

\* the directories that hold n files
PickInputs(n) == {[k \in 1..n |-> File(MetaNames[k], m[k])] : m \in [1..n -> PickMetas]}

PickInit ==
    /\ \E n \in 0..MaxMetas : pickIn \in PickInputs(n)
    /\ pickOut = NotPicked
    /\ disk = World([q \in Places |-> 1])
    /\ proc = Idle
    /\ hist = [init |-> disk, pre |-> disk, runs |-> 0, prev |-> "none",
               interrupted |-> FALSE]

\* pick_snapshot_id(dir, "earliest") and pick_snapshot_id(dir, "latest") on pickIn
Pick ==
    /\ ~pickOut.done
    /\ pickOut' = IF PickRaises(pickIn)
                  THEN [done |-> TRUE, raised |-> TRUE, earliest |-> NoVal,
                        latest |-> NoVal]
                  ELSE [done |-> TRUE, raised |-> FALSE,
                        earliest |-> PickFrom(pickIn, "earliest"),
                        latest |-> PickFrom(pickIn, "latest")]
    /\ UNCHANGED <<disk, proc, hist, pickIn>>

PickNext == Pick

SpecPick == PickInit /\ [][PickNext]_vars

(***************************************************************************)
(* The phases alone: one loop of main() (Phase A, Phase B or the           *)
(* replication pass) is run from its first iteration to its last on the   *)
(* registry as loaded, and then once more on the records and documents    *)
(* the first application left.  The documents are those of three          *)
(* workspaces, w1 at /p/a, w2 at /p/b and w3 at /q, and two projects, with *)
(* markers at /p, and possibly at /p/a and at /.                           *)
(***************************************************************************)
PhasePlaces ==
    {"w2proj", "markA", "markP", "markRoot", "storeA", "storeB", "storeQ",
     "cfgA", "cfgB", "cfgQ"}

PhaseValues(place) ==
    LET good  == Store(TRUE, << File("s1", Meta("s1", "zulu", 1, "h1")) >>,
                       TRUE, Manifests("h1", "c1"))
        empty == Store(TRUE, <<>>, TRUE, EmptyDoc)
        based(id, w) == Present(DocOf(<< <<"base_snapshot_id", id>>,
                                         <<"base_workspace_id", w>> >>))
    IN  CASE place = "w2proj"   -> <<"p2", "p1">>
          [] place = "markA"    -> <<Missing, Present(EmptyDoc), based("s1", "w2")>>
          [] place = "markP"    -> <<Present(EmptyDoc), based("s1", "w3"), based(NoVal, "w3")>>
          [] place = "markRoot" -> <<Missing, Present(EmptyDoc)>>
          [] place = "storeA"   -> <<empty, good, Store(FALSE, <<>>, FALSE, EmptyDoc)>>
          [] place = "storeB"   -> <<empty, good>>
          [] place = "storeQ"   -> <<good, empty>>
          [] place = "cfgA"     -> <<Present(EmptyDoc), Missing,
                                     Present(DocOf(<< <<"fork_snapshot_id", "s1">> >>))>>
          [] place = "cfgB"     -> <<Present(EmptyDoc),
                                     Present(DocOf(<< <<"base_snapshot_id", "s1">> >>))>>
          [] place = "cfgQ"     -> <<Present(EmptyDoc),
                                     Present(DocOf(<< <<"base_snapshot_id", "s1">> >>))>>

PhaseChoices ==
    {c \in [PhasePlaces -> 1..3] : \A q \in PhasePlaces : c[q] <= Len(PhaseValues(q))}

PhaseWorld(c) ==
    LET v(q)  == PhaseValues(q)[c[q]]
        rec(id, pid, path) == DocOf(<< <<"workspace_id", id>>, <<"project_id", pid>>,
                                       <<"path", path>> >>)
        cfgAt(x)   == CASE x = "/p/a" -> v("cfgA") [] x = "/p/b" -> v("cfgB")
                        [] OTHER -> v("cfgQ")
        storeAt(x) == CASE x = "/p/a" -> v("storeA") [] x = "/p/b" -> v("storeB")
                        [] OTHER -> v("storeQ")
        mark(dir)  == CASE dir = "/p"   -> v("markP")
                        [] dir = "/p/a" -> v("markA")
                        [] dir = "/"    -> v("markRoot")
                        [] OTHER        -> Missing
        homes == {"/p/a", "/p/b", "/q"}
    IN  [index  |-> [exists |-> TRUE, parses |-> TRUE,
                     workspaces |-> << rec("w1", "p1", "/p/a"),
                                       rec("w2", v("w2proj"), "/p/b"),
                                       rec("w3", "p2", "/q") >>,
                     projects |-> << DocOf(<< <<"project_id", "p1">> >>),
                                     DocOf(<< <<"project_id", "p2">> >>) >>],
         cfg    |-> [x \in {h \in homes : cfgAt(h).exists} |-> cfgAt(x).doc],
         parent |-> [x \in {dir \in Dirs : mark(dir).exists} |-> mark(x).doc],
         snaps  |-> [x \in {h \in homes : storeAt(h).snapdir} |-> storeAt(x).files],
         mans   |-> [x \in {h \in homes : storeAt(h).mandir} |-> storeAt(x).mans]]

\* main() at the first iteration of the loop ph, with the records ws in memory
AtPhase(ws, projects, ph) ==
    [pc |-> ph, ws |-> ws, projects |-> projects, i |-> 1, j |-> 1, stage |-> "meta",
     updated_configs |-> 0, updated_index |-> 0, updated_parents |-> 0,
     copied_bases |-> 0]

\* the loop ph run to its last iteration
RECURSIVE RunPhase(_, _, _)
RunPhase(d, p, ph) ==
    IF p.pc = ph THEN RunPhase(MainStep(d, p).disk, MainStep(d, p).proc, ph)
    ELSE Outcome(d, p)

\* the state after the loop: the documents and the records in memory
AfterPhase(out) ==
    /\ disk' = out.disk
    /\ proc' = [out.proc EXCEPT !.pc = IF @ = "crashed" THEN "crashed" ELSE "idle"]

PhaseInit ==
    /\ \E c \in PhaseChoices : disk = PhaseWorld(c)
    /\ proc = Idle
    /\ hist = [init |-> disk, pre |-> disk, runs |-> 0, prev |-> "none",
               interrupted |-> FALSE]
    /\ pickIn = <<>>
    /\ pickOut = NotPicked

\* the loop ph on the registry as loaded
PhaseOnce(ph) ==
    /\ hist.runs = 0
    /\ AfterPhase(RunPhase(disk, AtPhase(disk.index.workspaces, disk.index.projects, ph),
                           ph))
    /\ hist' = [hist EXCEPT !.pre = disk, !.runs = 1, !.prev = ph]
    /\ UNCHANGED <<pickIn, pickOut>>

PhaseAOnce == PhaseOnce("A")

PhaseBOnce == PhaseOnce("B")

ReplicationOnce == PhaseOnce("R")

\* the same loop once more, on what the first application left
PhaseAgain ==
    /\ hist.runs = 1
    /\ proc.pc = "idle"
    /\ AfterPhase(RunPhase(disk, AtPhase(proc.ws, proc.projects, hist.prev), hist.prev))
    /\ hist' = [hist EXCEPT !.pre = disk, !.runs = 2]
    /\ UNCHANGED <<pickIn, pickOut>>

PhaseNext == PhaseAOnce \/ PhaseBOnce \/ ReplicationOnce \/ PhaseAgain

SpecPhase == PhaseInit /\ [][PhaseNext]_vars

(***************************************************************************)
(* main() run again and again, every run to its end (line 273, or the     *)
(* exception that ends it), from the documents of Init and from those of  *)
(* PhaseInit.                                                              *)
(***************************************************************************)
RunInit == Init \/ PhaseInit

\* runs are left
RunsLeft == hist.runs < MaxRuns

\* what a run of main() does to the history
RunCounted ==
    /\ RunsLeft
    /\ hist' = [hist EXCEPT !.pre = disk, !.runs = @ + 1, !.prev = proc.pc]

WholeRun ==
    /\ RunCounted
    /\ disk' = FullRun(disk).disk
    /\ proc' = FullRun(disk).proc
    /\ UNCHANGED <<pickIn, pickOut>>

RunNext == WholeRun

\* main() is run again as long as runs are left.  A step of RunNext changes
\* hist exactly as RunCounted says, and a run can be made whenever runs are
\* left, so weak fairness of RunCounted on hist is weak fairness of WholeRun.
SpecRuns == RunInit /\ [][RunNext]_vars /\ WF_hist(RunCounted)

(***************************************************************************)
(* Claims.                                                                 *)
(***************************************************************************)
RunComplete == proc.pc = "done" /\ hist.runs >= 1

\* the second run of a behaviour, started right after a first run that completed
SecondRunAfterComplete == hist.runs = 2 /\ hist.prev = "done"

\* C1: a second run of main() made right after a first complete run writes
\* nothing: at every place of the second run the documents are those the first
\* run left.
C1_SecondRunWritesNothing ==
    SecondRunAfterComplete => disk = hist.pre

\* the first run was aborted and the second run, started after it, has completed
RerunAfterAbortComplete ==
    /\ proc.pc = "done"
    /\ hist.runs = 2
    /\ hist.prev = "aborted"

\* C2: when a run is aborted between two of its steps and main() is then run
\* again to completion, the documents are those a single uninterrupted run
\* leaves from the same initial documents.
C2_RerunConvergesToSingleRun ==
    (RerunAfterAbortComplete /\ FullRun(hist.init).proc.pc = "done")
        => disk = FullRun(hist.init).disk

\* every document of the stores d1 is in the stores d2 with the same content
StoresKept(d1, d2) ==
    /\ \A x \in DOMAIN d1.snaps :
          /\ x \in DOMAIN d2.snaps
          /\ Len(d2.snaps[x]) >= Len(d1.snaps[x])
          /\ \A k \in 1..Len(d1.snaps[x]) : d2.snaps[x][k] = d1.snaps[x][k]
    /\ \A x \in DOMAIN d1.mans :
          /\ x \in DOMAIN d2.mans
          /\ \A h \in DOMAIN d1.mans[x] :
                h \in DOMAIN d2.mans[x] /\ d2.mans[x][h] = d1.mans[x][h]

\* a directory holds at most one file of a name
NamesUnique(files) ==
    \A a, b \in 1..Len(files) : files[a].name = files[b].name => a = b

\* C3: a step of the replication pass leaves every metadata document and every
\* manifest document that is present in a store with the content it has, also
\* where the source holds other content under the same name; it only adds
\* documents under names that were absent.
C3_ReplicationNeverOverwrites ==
    [][proc.pc = "R" =>
          /\ StoresKept(disk, disk')
          /\ \A x \in DOMAIN disk'.snaps :
                (x \in DOMAIN disk.snaps => NamesUnique(disk.snaps[x]))
                    => NamesUnique(disk'.snaps[x])
          /\ disk'.cfg = disk.cfg /\ disk'.parent = disk.parent
          /\ disk'.index = disk.index]_vars

\* C3 witness: a run has ended in which a target was counted as copied while it
\* keeps, under the base snapshot id and under the manifest hash of the source,
\* documents that differ from the source's.
C3_Witness ==
    /\ RunComplete
    /\ \E q \in 1..Len(proc.projects), k \in 1..Len(proc.ws) :
          LET src == ReplicationSource(disk, proc.ws, proc.projects[q])
              y   == Get(proc.ws[k], "path")
          IN  /\ src.ok
              /\ SourceUsable(hist.pre, src.path, src.base_id)
              /\ Get(proc.ws[k], "project_id") = Get(proc.projects[q], "project_id")
              /\ Truthy(y) /\ y # src.path
              /\ proc.copied_bases >= Len(ws_by_project(proc.ws, Get(proc.projects[q],
                                                                      "project_id")))
              /\ y \in DOMAIN hist.pre.snaps \cap DOMAIN hist.pre.mans
              /\ HasFile(hist.pre.snaps[y], src.base_id)
              /\ FileDoc(disk.snaps[y], src.base_id)
                    # FileDoc(disk.snaps[src.path], src.base_id)
              /\ LET h == FileDoc(disk.snaps[src.path], src.base_id).manifest_hash
                 IN  /\ h \in DOMAIN hist.pre.mans[y]
                     /\ disk.mans[y][h] # disk.mans[src.path][h]

\* C4: a parent config that has a non-empty base_snapshot_id when a run starts
\* (no phase before Phase B writes parent configs) has the same content at every
\* later place of the run.
C4_ExplicitBaseUntouched ==
    \A r \in DOMAIN hist.pre.parent :
        Truthy(Get(hist.pre.parent[r], "base_snapshot_id"))
            => r \in DOMAIN disk.parent /\ disk.parent[r] = hist.pre.parent[r]

\* C4 witness: Phase B has gone over a project whose root holds a parent config
\* with a base, while a workspace of the project has another base recorded.
C4_Witness ==
    /\ proc.pc \in {"C", "R", "done"}
    /\ hist.runs = 1
    /\ \E q \in 1..Len(proc.projects) :
          LET r == ProjectRoot(disk, proc.ws, proc.projects[q])
          IN  /\ r # NoVal
              /\ Truthy(Get(hist.pre.parent[r], "base_snapshot_id"))
              /\ \E k \in 1..Len(proc.ws) :
                    /\ Get(proc.ws[k], "project_id") = Get(proc.projects[q], "project_id")
                    /\ Truthy(Get(proc.ws[k], "path"))
                    /\ Truthy(Get(proc.ws[k], "base_snapshot_id"))
                    /\ Get(proc.ws[k], "base_snapshot_id")
                          # Get(hist.pre.parent[r], "base_snapshot_id")

\* C5: after a complete run, every workspace record with a path whose local
\* config exists and has a non-empty base_snapshot_id has that same
\* base_snapshot_id, in memory and in the registry document.
C5_RegistryAgreesWithLocal ==
    RunComplete =>
        \A k \in 1..Len(proc.ws) :
            LET path == Get(proc.ws[k], "path")
            IN  (/\ Truthy(path)
                 /\ path \in DOMAIN disk.cfg
                 /\ Truthy(Get(disk.cfg[path], "base_snapshot_id")))
                => /\ Get(proc.ws[k], "base_snapshot_id")
                         = Get(disk.cfg[path], "base_snapshot_id")
                   /\ Get(disk.index.workspaces[k], "base_snapshot_id")
                         = Get(disk.cfg[path], "base_snapshot_id")

\* Phase B is past: the run is at Phase C or later
PhaseBPast == proc.pc \in {"C", "R", "done"}

\* Phase A is past
PhaseAPast == proc.pc \in {"B", "C", "R", "done"}

\* the roots whose parent config a step changes
Rewritten(d1, d2) ==
    {r \in DOMAIN d2.parent : r \notin DOMAIN d1.parent \/ d2.parent[r] # d1.parent[r]}

\* C6: whenever a Phase B step writes base_snapshot_id and base_workspace_id
\* into a parent config, base_workspace_id names a workspace record of the
\* project the step is at, and the base_snapshot_id of that workspace (of its
\* registry record, or of its local config) is the base_snapshot_id written.
C6_ParentBaseNamesProjectWorkspace ==
    [][proc.pc = "B" =>
          \A r \in Rewritten(disk, disk') :
              LET written == disk'.parent[r]
                  k       == ws_by_id(proc.ws, Get(written, "base_workspace_id"))
                  path    == IF k = 0 THEN NoVal ELSE Get(proc.ws[k], "path")
              IN  /\ k # 0
                  /\ Get(proc.ws[k], "project_id")
                        = Get(proc.projects[proc.i], "project_id")
                  /\ \/ Get(proc.ws[k], "base_snapshot_id")
                           = Get(written, "base_snapshot_id")
                     \/ /\ Truthy(path)
                        /\ path \in DOMAIN disk.cfg
                        /\ Get(disk.cfg[path], "base_snapshot_id")
                              = Get(written, "base_snapshot_id")]_vars

\* C7: once Phase A is past, every workspace record with a path whose local
\* config, when the run started, had an empty or missing base_snapshot_id and a
\* non-empty fork_snapshot_id v has a local config with base_snapshot_id = v and
\* without the key fork_snapshot_id, whatever the snapshot directory holds.
C7_LegacyMigration ==
    PhaseAPast =>
        \A k \in 1..Len(proc.ws) :
            LET path == Get(proc.ws[k], "path")
            IN  (/\ Truthy(path)
                 /\ path \in DOMAIN hist.pre.cfg
                 /\ ~Truthy(Get(hist.pre.cfg[path], "base_snapshot_id"))
                 /\ Truthy(Get(hist.pre.cfg[path], "fork_snapshot_id")))
                => /\ Get(disk.cfg[path], "base_snapshot_id")
                         = Get(hist.pre.cfg[path], "fork_snapshot_id")
                   /\ "fork_snapshot_id" \notin DOMAIN disk.cfg[path]

\* C7 witness: Phase A is past for a workspace whose config held only the
\* legacy field, with a value other than the snapshot the resolver picks from
\* its snapshot directory.
C7_Witness ==
    /\ PhaseAPast
    /\ \E k \in 1..Len(proc.ws) :
          LET path == Get(proc.ws[k], "path")
          IN  /\ Truthy(path)
              /\ path \in DOMAIN hist.pre.cfg
              /\ ~Truthy(Get(hist.pre.cfg[path], "base_snapshot_id"))
              /\ Truthy(Get(hist.pre.cfg[path], "fork_snapshot_id"))
              /\ ~pick_raises(hist.pre, path)
              /\ Truthy(pick_snapshot_id(hist.pre, path, "earliest"))
              /\ pick_snapshot_id(hist.pre, path, "earliest")
                    # Get(hist.pre.cfg[path], "fork_snapshot_id")

\* the snapshot directory of path is missing or holds no record with an id
NoSnapshotWithId(d, path) ==
    \/ path \notin DOMAIN d.snaps
    \/ \A k \in 1..Len(d.snaps[path]) : ~Truthy(d.snaps[path][k].doc.id)

\* the local config at path is missing, or names neither a base nor a fork
NoLocalLink(d, path) ==
    \/ path \notin DOMAIN d.cfg
    \/ /\ ~Truthy(Get(d.cfg[path], "base_snapshot_id"))
       /\ ~Truthy(Get(d.cfg[path], "fork_snapshot_id"))

\* the workspace record k had nothing to resolve a base from when the run started
Unresolvable(k) ==
    /\ Truthy(Get(proc.ws[k], "path"))
    /\ NoLocalLink(hist.pre, Get(proc.ws[k], "path"))
    /\ NoSnapshotWithId(hist.pre, Get(proc.ws[k], "path"))

\* C9: at the end of a complete run, a workspace whose local config named
\* neither a base nor a fork and whose snapshot directory was missing or held no
\* record with an id when the run started has a local config that is unchanged
\* (still without a base) and a registry record that is unchanged, in memory
\* and in the registry document; and the config of every workspace that had a
\* base_snapshot_id when the run started is unchanged.
C9_NoFabricatedLink ==
    RunComplete =>
        \A k \in 1..Len(proc.ws) :
            LET path == Get(proc.ws[k], "path")
            IN  /\ Unresolvable(k) =>
                    /\ NoLocalLink(disk, path)
                    /\ path \in DOMAIN hist.pre.cfg => disk.cfg[path] = hist.pre.cfg[path]
                    /\ path \in DOMAIN disk.cfg => path \in DOMAIN hist.pre.cfg
                    /\ proc.ws[k] = hist.pre.index.workspaces[k]
                    /\ disk.index.workspaces[k] = hist.pre.index.workspaces[k]
                /\ (/\ Truthy(path)
                    /\ path \in DOMAIN hist.pre.cfg
                    /\ Truthy(Get(hist.pre.cfg[path], "base_snapshot_id")))
                   => disk.cfg[path] = hist.pre.cfg[path]

\* C9 witness: a complete run has replicated the base of a workspace that had a
\* base_snapshot_id into the store of a sibling that had nothing to resolve a
\* base from.
C9_Witness ==
    /\ RunComplete
    /\ \E k, m \in 1..Len(proc.ws) :
          LET path == Get(proc.ws[k], "path")
              sib  == Get(proc.ws[m], "path")
          IN  /\ k # m
              /\ Unresolvable(k)
              /\ path \in DOMAIN hist.pre.cfg
              /\ Get(proc.ws[k], "project_id") = Get(proc.ws[m], "project_id")
              /\ Truthy(sib) /\ sib # path
              /\ sib \in DOMAIN hist.pre.cfg
              /\ Truthy(Get(hist.pre.cfg[sib], "base_snapshot_id"))
              /\ path \in DOMAIN disk.snaps
              /\ HasFile(disk.snaps[path], Get(hist.pre.cfg[sib], "base_snapshot_id"))

\* the directories from dir up to the filesystem root
RECURSIVE AncestorsOrSelf(_)
AncestorsOrSelf(dir) ==
    IF DirParent[dir] = dir THEN {dir}
    ELSE {dir} \cup AncestorsOrSelf(DirParent[dir])

\* the deepest directory among dir and its ancestors that holds a marker
NearestMarked(d, dir) ==
    LET marked == AncestorsOrSelf(dir) \cap DOMAIN d.parent
    IN  IF marked = {} THEN NoVal
        ELSE CHOOSE r \in marked :
                 \A x \in marked : Cardinality(AncestorsOrSelf(x))
                                       <= Cardinality(AncestorsOrSelf(r))

\* the records of project pid that have a path
WithPath(ws, pid) ==
    {k \in 1..Len(ws) : Truthy(pid) /\ Get(ws[k], "project_id") = pid
                            /\ Truthy(Get(ws[k], "path"))}

\* the first record of the project, in registry order, whose path has a marked
\* ancestor; 0 when there is none
RootGiver(d, ws, pid) ==
    LET givers == {k \in WithPath(ws, pid) : NearestMarked(d, Get(ws[k], "path")) # NoVal}
    IN  IF givers = {} THEN 0 ELSE CHOOSE k \in givers : \A m \in givers : k <= m

\* project_path is set and holds a marker
PathMarked(d, proj) ==
    /\ Truthy(Get(proj, "project_path"))
    /\ Get(proj, "project_path") \in DOMAIN d.parent

\* the root by ancestry of a project whose project_path is not marked
AncestryRoot(d, ws, proj) ==
    LET k == RootGiver(d, ws, Get(proj, "project_id"))
    IN  IF k = 0 THEN NoVal ELSE NearestMarked(d, Get(ws[k], "path"))

\* the record k yields a base id without an exception
Resolvable(d, w) == ~BaseIdRaises(d, w) /\ Truthy(BaseIdOf(d, w))

\* the Phase B step at a project without a marked project_path whose root by
\* ancestry holds a parent config without a base, the record that gave the root
\* having a resolvable base
AncestryCase(d, p) ==
    LET proj == p.projects[p.i]
        k    == RootGiver(d, p.ws, Get(proj, "project_id"))
    IN  /\ p.pc = "B"
        /\ ~PathMarked(d, proj)
        /\ k # 0
        /\ ~Truthy(Get(d.parent[AncestryRoot(d, p.ws, proj)], "base_snapshot_id"))
        /\ Resolvable(d, p.ws[k])

\* the parent config names no registered workspace, and no record of the
\* project before the one that gave the root has a path and a base of its own
RootGiverIsFirstChoice(d, p) ==
    LET proj == p.projects[p.i]
        pid  == Get(proj, "project_id")
        k    == RootGiver(d, p.ws, pid)
        hint == Get(d.parent[AncestryRoot(d, p.ws, proj)], "base_workspace_id")
    IN  /\ \A m \in 1..Len(p.ws) : ~Truthy(hint) \/ Get(p.ws[m], "workspace_id") # hint
        /\ \A m \in WithPath(p.ws, pid) :
              m < k => ~BaseIdRaises(d, p.ws[m]) /\ ~Truthy(BaseIdOf(d, p.ws[m]))

\* the parent config at the root by ancestry holds the base of the record that
\* gave the root, and that record's id
RootGiverWritten(d, p, d2) ==
    LET proj == p.projects[p.i]
        k    == RootGiver(d, p.ws, Get(proj, "project_id"))
        root == AncestryRoot(d, p.ws, proj)
    IN  /\ Get(d2.parent[root], "base_snapshot_id") = BaseIdOf(d, p.ws[k])
        /\ Get(d2.parent[root], "base_workspace_id") = Get(p.ws[k], "workspace_id")

\* C10 as stated: a Phase B step at a project without a marked project_path
\* takes as root the nearest marked directory from the path of the first
\* workspace of the project that has one, and, where the parent config there has
\* no base and that workspace has a resolvable base b, ends with
\* base_snapshot_id = b and base_workspace_id = that workspace's id in it.
C10_RootGiverIsAlwaysWritten ==
    [][(AncestryCase(disk, proc) /\ proc'.pc \notin {"crashed", "aborted"})
          => RootGiverWritten(disk, proc, disk')]_vars

\* C10 as amended: a Phase B step at a project without a marked project_path
\* writes no parent config but the one at the nearest marked directory from the
\* path of the first workspace of the project that has one (none when no
\* workspace path has a marked ancestor); and where the parent config there has
\* no base and names no registered workspace, and the workspace that gave the
\* root is the first of the project with a path that has a resolvable base b,
\* the step ends with base_snapshot_id = b and base_workspace_id = that
\* workspace's id in it.
C10_RootByAncestry ==
    [][(proc.pc = "B" /\ ~PathMarked(disk, proc.projects[proc.i]))
          => /\ Rewritten(disk, disk')
                   \subseteq {AncestryRoot(disk, proc.ws, proc.projects[proc.i])}
                        \cap DOMAIN disk.parent
             /\ (/\ AncestryCase(disk, proc)
                 /\ RootGiverIsFirstChoice(disk, proc)
                 /\ proc'.pc \notin {"crashed", "aborted"})
                   => RootGiverWritten(disk, proc, disk')]_vars

\* C10 witness: Phase B is past for a project without project_path whose marker
\* lies in the parent directory of the path of its first workspace; the parent
\* config there had no base and now holds the base and the id of that workspace.
C10_Witness ==
    /\ PhaseBPast
    /\ hist.runs = 1
    /\ \E q \in 1..Len(proc.projects) :
          LET proj == proc.projects[q]
              k    == RootGiver(hist.pre, proc.ws, Get(proj, "project_id"))
              root == AncestryRoot(hist.pre, proc.ws, proj)
          IN  /\ ~Truthy(Get(proj, "project_path"))
              /\ k # 0
              /\ root = DirParent[Get(proc.ws[k], "path")]
              /\ root # Get(proc.ws[k], "path")
              /\ ~Truthy(Get(hist.pre.parent[root], "base_snapshot_id"))
              /\ Truthy(Get(disk.parent[root], "base_snapshot_id"))
              /\ Get(disk.parent[root], "base_snapshot_id")
                    = Get(proc.ws[k], "base_snapshot_id")
              /\ Get(disk.parent[root], "base_workspace_id")
                    = Get(proc.ws[k], "workspace_id")

\* the records of pickIn with an id, and those of them with a valid created_at
WithId == {k \in 1..Len(pickIn) : Truthy(pickIn[k].doc.id)}

WithValidTime == {k \in WithId : pickIn[k].doc.created_at.form \in {"naive", "zulu"}}

InstantOf(k) == pickIn[k].doc.created_at.t

\* the id pick(earliest) is to return
EarliestAsClaimed(sid) ==
    IF WithValidTime # {}
    THEN \E k \in WithValidTime :
             /\ sid = pickIn[k].doc.id
             /\ \A m \in WithValidTime : InstantOf(k) <= InstantOf(m)
    ELSE IF WithId # {} THEN \E k \in WithId : sid = pickIn[k].doc.id
    ELSE sid = NoVal

\* the id pick(latest) is to return
LatestAsClaimed(sid) ==
    IF WithId \ WithValidTime # {}
    THEN \E k \in WithId \ WithValidTime : sid = pickIn[k].doc.id
    ELSE IF WithValidTime # {}
    THEN \E k \in WithValidTime :
             /\ sid = pickIn[k].doc.id
             /\ \A m \in WithValidTime : InstantOf(m) <= InstantOf(k)
    ELSE sid = NoVal

\* C8: for every list of metadata records, pick(earliest) returns the id of a
\* record with the smallest valid created_at among the records with an id, or
\* of some record with an id when none has a valid created_at; pick(latest)
\* returns the id of a record with an id and no valid created_at when there is
\* one, else of the record with the largest valid created_at; both return
\* (neither raises) and neither returns a record without an id.
C8_PickOrdering ==
    pickOut.done =>
        /\ ~pickOut.raised
        /\ EarliestAsClaimed(pickOut.earliest)
        /\ LatestAsClaimed(pickOut.latest)

\* whenever pick_snapshot_id returns, it returns what C8 states
PickOrderingWhenItReturns ==
    (pickOut.done /\ ~pickOut.raised)
        => EarliestAsClaimed(pickOut.earliest) /\ LatestAsClaimed(pickOut.latest)

\* the store at path holds a metadata document for base_id and the manifest
\* document that this metadata document references
ResolvesLocally(d, path, base_id) ==
    /\ path \in DOMAIN d.snaps
    /\ HasFile(d.snaps[path], base_id)
    /\ Truthy(FileDoc(d.snaps[path], base_id).manifest_hash)
    /\ path \in DOMAIN d.mans
    /\ FileDoc(d.snaps[path], base_id).manifest_hash \in DOMAIN d.mans[path]

HasUnparseable(d) ==
    \/ d.index.exists /\ ~d.index.parses
    \/ \E x \in DOMAIN d.cfg : d.cfg[x] = Unparseable
    \/ \E x \in DOMAIN d.parent : d.parent[x] = Unparseable
    \/ \E x \in DOMAIN d.snaps : \E k \in 1..Len(d.snaps[x]) : ~d.snaps[x][k].doc.parses

\* no snapshot directory of d makes pick_snapshot_id raise
NoPickRaises(d) == \A x \in DOMAIN d.snaps : ~PickRaises(d.snaps[x])

\* the documents of d1 that are not JSON are in d2 as they are in d1
UnparseableKept(d1, d2) ==
    /\ (d1.index.exists /\ ~d1.index.parses) => d2.index = d1.index
    /\ \A x \in DOMAIN d1.cfg :
          d1.cfg[x] = Unparseable => x \in DOMAIN d2.cfg /\ d2.cfg[x] = Unparseable
    /\ \A x \in DOMAIN d1.parent :
          d1.parent[x] = Unparseable => x \in DOMAIN d2.parent /\ d2.parent[x] = Unparseable

\* C12: a run started on documents of which one (the registry document, a
\* workspace config, a parent config or a snapshot metadata document) exists
\* but is not JSON writes nothing into that document and does not end with an
\* exception: it goes on to its end as if the document were absent.  (Snapshot
\* directories on which pick_snapshot_id raises are left aside.)
C12_MalformedIsAbsence ==
    (hist.runs >= 1 /\ HasUnparseable(hist.pre) /\ NoPickRaises(hist.pre))
        => /\ proc.pc # "crashed"
           /\ UnparseableKept(hist.pre, disk)

\* the four counters main() prints at its end
Counters(p) ==
    <<p.updated_configs, p.updated_index, p.updated_parents, p.copied_bases>>

\* C13: a second run made right after a first complete run ends with all four
\* summary counters at zero.
C13_SecondRunCountersZero ==
    (SecondRunAfterComplete /\ proc.pc = "done") => Counters(proc) = <<0, 0, 0, 0>>

\* the same for a run that wrote nothing: a complete run that leaves every
\* document as it found it ends with all four counters at zero
CountersZeroWhenNothingWritten ==
    (RunComplete /\ disk = hist.pre) => Counters(proc) = <<0, 0, 0, 0>>

\* the step is the second application of the loop ph
SecondApplication(ph) == hist.runs = 1 /\ hist'.runs = 2 /\ hist.prev = ph

\* C14: the second of two applications in succession of Phase A, of Phase B or
\* of the replication pass writes nothing and leaves the registry records in
\* memory as they are: the workspace configs and the registry records, the
\* parent configs and the stores are those the first application left.
C14_EachPhaseIdempotent ==
    [][(hist.runs = 1 /\ hist'.runs = 2) => (disk' = disk /\ proc'.ws = proc.ws)]_vars

\* the same for Phase A alone
PhaseAIdempotent ==
    [][SecondApplication("A") => (disk' = disk /\ proc'.ws = proc.ws)]_vars

\* the same for Phase B alone
PhaseBIdempotent ==
    [][SecondApplication("B") => (disk' = disk /\ proc'.ws = proc.ws)]_vars

\* the same for the replication pass alone
ReplicationIdempotent ==
    [][SecondApplication("R") => (disk' = disk /\ proc'.ws = proc.ws)]_vars

\* Phase A of the current run has set the base_snapshot_id of the record at
\* position k, which had none in the registry document
SetByPhaseA(k) ==
    /\ ~Truthy(Get(hist.pre.index.workspaces[k], "base_snapshot_id"))
    /\ Truthy(Get(proc.ws[k], "base_snapshot_id"))

\* C15: when a Phase B step writes a parent config and the workspace record it
\* selected (through the base_workspace_id hint or the project scan) is one
\* whose base_snapshot_id Phase A set in this run, the base_snapshot_id written
\* is that value, whatever the snapshot directory of the workspace holds, and
\* the base_workspace_id written is the id of that record.
C15_PhaseAVisibleInPhaseB ==
    [][proc.pc = "B" =>
          \A r \in Rewritten(disk, disk') :
              LET pid == Get(proc.projects[proc.i], "project_id")
                  k   == SelectBase(disk, proc.ws, pid, disk.parent[r]).k
              IN  (k # 0 /\ SetByPhaseA(k)) =>
                      /\ Get(disk'.parent[r], "base_snapshot_id")
                            = Get(proc.ws[k], "base_snapshot_id")
                      /\ Get(disk'.parent[r], "base_workspace_id")
                            = Get(proc.ws[k], "workspace_id")]_vars

\* C15 witness: Phase B is past and a parent config that had no base holds the
\* base that Phase A set in the record of a workspace whose registry entry had
\* none, while the earliest snapshot of that workspace's directory is another.
C15_Witness ==
    /\ PhaseBPast
    /\ hist.runs = 1
    /\ \E r \in DOMAIN hist.pre.parent, k \in 1..Len(proc.ws) :
          LET path == Get(proc.ws[k], "path")
          IN  /\ ~Truthy(Get(hist.pre.parent[r], "base_snapshot_id"))
              /\ SetByPhaseA(k)
              /\ Get(disk.parent[r], "base_snapshot_id")
                    = Get(proc.ws[k], "base_snapshot_id")
              /\ Get(disk.parent[r], "base_workspace_id")
                    = Get(proc.ws[k], "workspace_id")
              /\ Truthy(path)
              /\ ~pick_raises(hist.pre, path)
              /\ Truthy(pick_snapshot_id(hist.pre, path, "earliest"))
              /\ pick_snapshot_id(hist.pre, path, "earliest")
                    # Get(proc.ws[k], "base_snapshot_id")

\* the record w has a recorded base_snapshot_id, or the resolver picks an
\* earliest snapshot from its directory
YieldsBase(d, w) == ~BaseIdRaises(d, w) /\ Truthy(BaseIdOf(d, w))

\* the first position of the set of positions S, 0 when S is empty
FirstOf(S) == IF S = {} THEN 0 ELSE CHOOSE k \in S : \A m \in S : k <= m

\* the first record of project pid, in registry order, that yields a base
FirstYielding(d, ws, pid) ==
    FirstOf({k \in 1..Len(ws) : /\ Truthy(pid) /\ Get(ws[k], "project_id") = pid
                                /\ YieldsBase(d, ws[k])})

\* the first record of project pid, in registry order, that has a path and
\* yields a base
FirstYieldingWithPath(d, ws, pid) ==
    FirstOf({k \in WithPath(ws, pid) : YieldsBase(d, ws[k])})

\* a Phase B step that ends without an exception at a project whose parent
\* config has no base_snapshot_id and names no workspace of the registry
ScanCase(d, p, p2) ==
    LET proj == p.projects[p.i]
        root == ProjectRoot(d, p.ws, proj)
    IN  /\ p.pc = "B"
        /\ p2.pc \notin {"crashed", "aborted"}
        /\ Truthy(Get(proj, "project_id"))
        /\ root # NoVal
        /\ ~Truthy(Get(d.parent[root], "base_snapshot_id"))
        /\ ws_by_id(p.ws, Get(d.parent[root], "base_workspace_id")) = 0

\* the step writes into the parent config at the root of its project the base
\* and the id of the record at position k, and nothing when k = 0
PairWritten(d, p, d2, k) ==
    LET root == ProjectRoot(d, p.ws, p.projects[p.i])
    IN  IF k = 0 THEN d2 = d
        ELSE /\ Rewritten(d, d2) \subseteq {root}
             /\ Get(d2.parent[root], "base_snapshot_id") = BaseIdOf(d, p.ws[k])
             /\ Get(d2.parent[root], "base_workspace_id") = Get(p.ws[k], "workspace_id")
             /\ d2.cfg = d.cfg /\ d2.index = d.index
             /\ d2.snaps = d.snaps /\ d2.mans = d.mans

BaseFields == {"base_snapshot_id", "base_workspace_id"}

\* C17 as stated: a base_snapshot_id or a base_workspace_id that is non-empty
\* in a parent config when a run starts is in that parent config with the same
\* value at every later place of the run.
C17_ParentOnlyFilledIn ==
    \A r \in DOMAIN hist.pre.parent :
        \A f \in BaseFields :
            Truthy(Get(hist.pre.parent[r], f))
                => /\ r \in DOMAIN disk.parent
                   /\ Get(disk.parent[r], f) = Get(hist.pre.parent[r], f)

\* C17 as amended: a parent config that exists when a run starts exists at
\* every later place of the run and loses no key; with a non-empty
\* base_snapshot_id it is unchanged; a non-empty base_workspace_id keeps its
\* value where it names a workspace of the registry, and otherwise is either
\* kept or replaced together with the writing of a base_snapshot_id.
C17_ParentFilledIn ==
    \A r \in DOMAIN hist.pre.parent :
        LET before == hist.pre.parent[r]
            hint   == Get(before, "base_workspace_id")
        IN  /\ r \in DOMAIN disk.parent
            /\ DOMAIN before \subseteq DOMAIN disk.parent[r]
            /\ \A f \in DOMAIN before \ BaseFields : disk.parent[r][f] = before[f]
            /\ Truthy(Get(before, "base_snapshot_id")) => disk.parent[r] = before
            /\ (Truthy(hint) /\ ws_by_id(hist.pre.index.workspaces, hint) # 0)
                  => Get(disk.parent[r], "base_workspace_id") = hint
            /\ \/ disk.parent[r] = before
               \/ Truthy(Get(disk.parent[r], "base_snapshot_id"))

\* C17 witness: Phase B is past and a parent config that had no base but named
\* a workspace of the registry holds a base now and names the same workspace,
\* while the first workspace of the project that yields a base is another.
C17_Witness ==
    /\ PhaseBPast
    /\ hist.runs = 1
    /\ \E q \in 1..Len(proc.projects) :
          LET proj == proc.projects[q]
              root == ProjectRoot(hist.pre, proc.ws, proj)
              hint == Get(hist.pre.parent[root], "base_workspace_id")
              k    == FirstYieldingWithPath(hist.pre, proc.ws, Get(proj, "project_id"))
          IN  /\ root # NoVal
              /\ ~Truthy(Get(hist.pre.parent[root], "base_snapshot_id"))
              /\ Truthy(hint)
              /\ ws_by_id(hist.pre.index.workspaces, hint) # 0
              /\ Truthy(Get(disk.parent[root], "base_snapshot_id"))
              /\ Get(disk.parent[root], "base_workspace_id") = hint
              /\ k # 0
              /\ Get(proc.ws[k], "workspace_id") # hint

\* the store at source has no metadata document for base_id
SourceMetaAbsent(d, source, base_id) ==
    source \notin DOMAIN d.snaps \/ ~HasFile(d.snaps[source], base_id)

\* the metadata document for base_id at source is JSON and has no manifest_hash
SourceHashMissing(d, source, base_id) ==
    /\ ~SourceMetaAbsent(d, source, base_id)
    /\ FileDoc(d.snaps[source], base_id).parses
    /\ ~Truthy(FileDoc(d.snaps[source], base_id).manifest_hash)

\* the metadata document for base_id at source names a manifest that the
\* store at source does not hold
SourceManifestAbsent(d, source, base_id) ==
    /\ ~SourceMetaAbsent(d, source, base_id)
    /\ Truthy(FileDoc(d.snaps[source], base_id).manifest_hash)
    /\ \/ source \notin DOMAIN d.mans
       \/ FileDoc(d.snaps[source], base_id).manifest_hash \notin DOMAIN d.mans[source]

\* the replication pass is at a target with a path, for a project with a
\* source path and a base id
AtTarget(d, p) ==
    /\ p.pc = "R"
    /\ ReplicationSource(d, p.ws, p.projects[p.i]).ok
    /\ LET targets == ws_by_project(p.ws, Get(p.projects[p.i], "project_id"))
       IN  p.j <= Len(targets) /\ Truthy(Get(p.ws[targets[p.j]], "path"))

\* C18: a replication step at a target, where the base workspace's store has
\* no metadata document for the base, or one without manifest_hash, or lacks
\* the manifest of that hash, writes no document, creates no directory, raises
\* no exception and does not count the target as copied.
C18_UnusableSourceSkipped ==
    [][(/\ AtTarget(disk, proc)
        /\ LET src == ReplicationSource(disk, proc.ws, proc.projects[proc.i])
           IN  \/ SourceMetaAbsent(disk, src.path, src.base_id)
               \/ SourceHashMissing(disk, src.path, src.base_id)
               \/ SourceManifestAbsent(disk, src.path, src.base_id))
          => /\ disk' = disk
             /\ proc'.copied_bases = proc.copied_bases
             /\ proc'.pc # "crashed"]_vars

\* C18 witness: a complete run has gone over the targets of a project whose
\* base workspace holds the metadata document of the base but not its
\* manifest; a target that had no snapshot directory has none, and no target
\* was counted.
C18_Witness ==
    /\ RunComplete
    /\ hist.runs = 1
    /\ proc.copied_bases = 0
    /\ \E q \in 1..Len(proc.projects), k \in 1..Len(proc.ws) :
          LET proj == proc.projects[q]
              src  == ReplicationSource(disk, proc.ws, proj)
              path == Get(proc.ws[k], "path")
          IN  /\ src.ok
              /\ SourceManifestAbsent(disk, src.path, src.base_id)
              /\ Get(proc.ws[k], "project_id") = Get(proj, "project_id")
              /\ Truthy(path) /\ path # src.path
              /\ path \notin DOMAIN disk.snaps
              /\ path \notin DOMAIN disk.mans

\* the other two cases of C18 at the end of a complete run
UnusableByAbsentMetadata ==
    /\ RunComplete
    /\ \E q \in 1..Len(proc.projects) :
          LET src == ReplicationSource(disk, proc.ws, proc.projects[q])
          IN  src.ok /\ SourceMetaAbsent(disk, src.path, src.base_id)

UnusableByMissingHash ==
    /\ RunComplete
    /\ \E q \in 1..Len(proc.projects) :
          LET src == ReplicationSource(disk, proc.ws, proc.projects[q])
          IN  src.ok /\ SourceHashMissing(disk, src.path, src.base_id)

\* the positions of the records whose base_snapshot_id Phase A set in this run
SetRecords == {k \in 1..Len(proc.ws) : SetByPhaseA(k)}

\* the registry document d2 is the loaded one with, in every record that Phase A
\* set, the base_snapshot_id of the local config, and nothing else changed
RegistryWithSetValues(d, d2) ==
    /\ d2.index.exists = hist.pre.index.exists
    /\ d2.index.parses = hist.pre.index.parses
    /\ d2.index.projects = hist.pre.index.projects
    /\ Len(d2.index.workspaces) = Len(hist.pre.index.workspaces)
    /\ \A k \in 1..Len(hist.pre.index.workspaces) :
          d2.index.workspaces[k] =
              IF k \in SetRecords
              THEN Put(hist.pre.index.workspaces[k], "base_snapshot_id",
                       Get(d.cfg[Get(proc.ws[k], "path")], "base_snapshot_id"))
              ELSE hist.pre.index.workspaces[k]

\* C19: within a run the registry document changes in no step but the one
\* between Phase B and the replication pass, and at most once (it is the
\* loaded document until then); that step writes it exactly when Phase A set
\* the base_snapshot_id of at least one record, and the document written is
\* the loaded one, same workspaces and same projects, with those values in
\* the base_snapshot_id fields that were empty; it changes nothing else.
C19_RegistryPersistence ==
    [][/\ disk'.index # disk.index => (proc.pc = "C" /\ disk.index = hist.pre.index)
       /\ (proc.pc = "C" /\ proc'.pc # "aborted") =>
             /\ proc'.pc \in {"R", "done"}
             /\ IF SetRecords = {} THEN disk'.index = disk.index
                ELSE disk'.index # disk.index /\ RegistryWithSetValues(disk, disk')
             /\ disk'.cfg = disk.cfg /\ disk'.parent = disk.parent
             /\ disk'.snaps = disk.snaps /\ disk'.mans = disk.mans]_vars

\* C19 witness: the registry document was written in the first run: one record
\* has the base_snapshot_id that Phase A set, another record, without a base,
\* is as it was loaded.
C19_Witness ==
    /\ proc.pc \in {"R", "done"}
    /\ hist.runs = 1
    /\ disk.index # hist.pre.index
    /\ \E k, m \in 1..Len(proc.ws) :
          /\ SetByPhaseA(k)
          /\ Get(disk.index.workspaces[k], "base_snapshot_id")
                = Get(disk.cfg[Get(proc.ws[k], "path")], "base_snapshot_id")
          /\ ~Truthy(Get(disk.index.workspaces[m], "base_snapshot_id"))
          /\ disk.index.workspaces[m] = hist.pre.index.workspaces[m]

\* a run has gone past Phase C without a write of the registry document, no
\* record having been set although a local config has a base
RegistryNotWritten ==
    /\ proc.pc \in {"R", "done"}
    /\ hist.runs = 1
    /\ Len(proc.ws) > 0
    /\ disk.index = hist.pre.index
    /\ \E k \in 1..Len(proc.ws) :
          /\ Truthy(Get(proc.ws[k], "path"))
          /\ Get(proc.ws[k], "path") \in DOMAIN disk.cfg
          /\ Truthy(Get(disk.cfg[Get(proc.ws[k], "path")], "base_snapshot_id"))

\* a further run of main() on the documents writes nothing
FixedPoint == FullRun(disk).disk = disk

ThreeRunsWrite ==
    /\ hist.runs = 3
    /\ disk # hist.pre
    /\ FullRun(hist.init).disk # hist.init
    /\ FullRun(FullRun(hist.init).disk).disk # FullRun(hist.init).disk
====
